---- MODULE Spec2Model ----
(***************************************************************************)
(* Model of src/App.tsx: the edit history (history, historyIndex) of the   *)
(* App component, the handlers that change it, the FileReader callbacks of *)
(* processFile and the asynchronous continuation of handleGenerate.        *)
(*                                                                         *)
(* One action is one JavaScript task: an event handler, a FileReader       *)
(* callback or the part of the async handleGenerate between two awaits.    *)
(* All setState calls of one task are committed together (React batches    *)
(* the updates of a task and renders once), so a task is one step.         *)
(* A handler reads the state of the render it was created in; an           *)
(* event handler therefore reads the current state, and the continuation   *)
(* of handleGenerate reads the history and historyIndex captured by the    *)
(* closure when the edit was started (useCallback, line 250).              *)
(*                                                                         *)
(* The `disabled` attributes of the buttons (lines 322-369) are modelled   *)
(* by their isLoading disjunct, which no handler tests itself.  Their      *)
(* other disjunct (!currentImageSrc, !isUndoable, !isRedoable) repeats the *)
(* guard the handler tests in its own code, so the handlers below are      *)
(* translated with the guard and the early return they have in the source. *)
(***************************************************************************)
EXTENDS Integers, Sequences, FiniteSets, TLC

\* ---------------------------------------------------------------- bounds
\* image files the user can drop or choose: 1..MaxFiles
MaxFiles == 2
\* longest history the model lets an edit produce
MaxHistory == 3
\* distinct images the external model can answer with for one request
MaxVariants == 1

\* ------------------------------------------------------------- constants
\* a file whose type does not start with "image/"
NonImageFile == 0
ImageFiles == 1..MaxFiles
Files == ImageFiles \cup {NonImageFile}
\* useState<File | null>(null), line 76
NoFile == -1
\* useState<string | null>(null), line 80
NoError == "null"
ErrUploadFirst == "Please upload an image first."
ErrCouldNotRead == "Could not read the uploaded file."
ErrFailedToRead == "Failed to read the image file."
ErrInvalidFile == "Please upload a valid image file (PNG, JPG, etc.)."
\* the three messages the catch block can show, line 246
ErrModelCall == "failed: generateContent rejected"
ErrNoImagePart == "failed: AI did not return a valid image. Please try again."
ErrChromaKey == "failed: Failed to load image for magenta removal"
\* the two actionName values passed by the buttons, lines 321 and 328
BgRemoval == "bgRemoval"
Blemishes == "blemishes"
ActionNames == {BgRemoval, Blemishes}

VARIABLES
    originalFile,   \* line 76
    history,        \* line 77: sequence of snapshots (TLA+ index = JS index + 1)
    historyIndex,   \* line 78: JS index, -1 when empty
    isLoading,      \* line 79
    error,          \* line 80
    dialogOpen,     \* the file chooser opened by fileInputRef.current.click(), line 296
    reading,        \* files with a FileReader.readAsDataURL in flight, line 155
    inflight,       \* sequence of handleGenerate calls suspended at an await
    lastOp,         \* the task that took the last step
    queue,          \* setState calls of the running task not yet rendered
    img,            \* bytes of the decoded image drawn on the canvas, line 98
    data,           \* imageData.data, lines 100-101 (TLA+ index = JS index + 1)
    loopI,          \* the loop variable i of line 108
    hsl             \* [h, s, l] of line 113 for the pixel last visited

\* the state of the App component and of its pending callbacks
appVars == <<originalFile, history, historyIndex, isLoading, error, dialogOpen,
             reading, inflight, lastOp>>
\* the state used by the render and chroma-key specifications below
auxVars == <<queue, img, data, loopI, hsl>>

vars == <<originalFile, history, historyIndex, isLoading, error, dialogOpen,
          reading, inflight, lastOp, queue, img, data, loopI, hsl>>

\* ------------------------------------------------------------- snapshots
\* A snapshot is a data URL.  It is represented by how it was made:
\*   <<"upload", f, <<>>>>   reader.result of file f            (line 141)
\*   <<"model", v, src>>     the data URL built from the model's answer v
\*                           to the image src                      (line 225)
\*   <<"png", v, src>>       canvas.toDataURL('image/png') of that (line 130)
uploadSnapshot(f) == <<"upload", f, <<>>>>

aiResultImageSrc(v, src) == <<"model", v, src>>

\* makeMagentaTransparent resolves with a PNG re-encoding of its argument
makeMagentaTransparent(src) == <<"png", src[2], src[3]>>

\* line 84: history[historyIndex] ?? null
currentImageSrc == IF historyIndex >= 0 /\ historyIndex < Len(history)
                   THEN history[historyIndex + 1] ELSE <<>>

\* lines 274-276
isUndoable == historyIndex > 0
isRedoable == historyIndex < Len(history) - 1
canDownload == historyIndex > 0

\* history.slice(0, n)
slice(h, n) == SubSeq(h, 1, IF n < Len(h) THEN n ELSE Len(h))

\* removal of element k of a sequence
RemoveAt(s, k) == SubSeq(s, 1, k - 1) \o SubSeq(s, k + 1, Len(s))

\* ------------------------------------------------------------------ Init
Init ==
    /\ originalFile = NoFile
    /\ history = <<>>
    /\ historyIndex = -1
    /\ isLoading = FALSE
    /\ error = NoError
    /\ dialogOpen = FALSE
    /\ reading = {}
    /\ inflight = <<>>
    /\ lastOp = "init"
    /\ queue = <<>>
    /\ img = <<>>
    /\ data = <<>>
    /\ loopI = 0
    /\ hsl = <<>>

\* ------------------------------------------------------------ file upload
\* processFile, lines 137-159: the synchronous part
processFile(file) ==
    IF file \in ImageFiles
    THEN /\ reading' = reading \cup {file}
         /\ UNCHANGED error
    ELSE /\ error' = ErrInvalidFile
         /\ UNCHANGED reading

\* the drop zone is rendered only while there is no current image (287-305)
DropZoneRendered == currentImageSrc = <<>>

\* onClick of the drop zone, line 296
OpenFileDialog ==
    /\ DropZoneRendered
    /\ ~dialogOpen
    /\ dialogOpen' = TRUE
    /\ lastOp' = "openDialog"
    /\ UNCHANGED <<originalFile, history, historyIndex, isLoading, error,
                   reading, inflight>>
    /\ UNCHANGED auxVars

\* the user closes the chooser without a file: no change event
CancelFileDialog ==
    /\ dialogOpen
    /\ dialogOpen' = FALSE
    /\ lastOp' = "cancelDialog"
    /\ UNCHANGED <<originalFile, history, historyIndex, isLoading, error,
                   reading, inflight>>
    /\ UNCHANGED auxVars

\* handleFileChange, lines 161-166
handleFileChange ==
    /\ dialogOpen
    /\ \E file \in Files :
          /\ file \notin reading
          /\ processFile(file)
    /\ dialogOpen' = FALSE
    /\ lastOp' = "fileChange"
    /\ UNCHANGED <<originalFile, history, historyIndex, isLoading, inflight>>
    /\ UNCHANGED auxVars

\* handleDrop, lines 178-185
handleDrop ==
    /\ DropZoneRendered
    /\ \E file \in Files :
          /\ file \notin reading
          /\ processFile(file)
    /\ lastOp' = "drop"
    /\ UNCHANGED <<originalFile, history, historyIndex, isLoading, dialogOpen,
                   inflight>>
    /\ UNCHANGED auxVars

\* handleReset without setHistoryIndex(-1)
handleResetUpdates_keepIndex ==
    [originalFile |-> NoFile, history |-> <<>>, historyIndex |-> historyIndex,
     error |-> NoError]

\* handleReset, lines 252-260: the updates it queues
handleResetUpdates ==
    [originalFile |-> NoFile, history |-> <<>>, historyIndex |-> -1,
     error |-> NoError]

\* reader.onload that pushes the upload onto the existing history
ReaderOnLoadUpdates_keepHistory(file) ==
    [handleResetUpdates EXCEPT !.originalFile = file,
                               !.history = Append(history, uploadSnapshot(file)),
                               !.historyIndex = Len(history),
                               !.error = NoError]

\* reader.onload, lines 140-151
ReaderOnLoadUpdates(file) ==
    [handleResetUpdates EXCEPT !.originalFile = file,
                               !.history = <<uploadSnapshot(file)>>,
                               !.historyIndex = 0,
                               !.error = NoError]

ReaderOnLoad ==
    \E file \in reading :
       /\ reading' = reading \ {file}
       /\ \/ /\ originalFile' = ReaderOnLoadUpdates(file).originalFile
             /\ history' = ReaderOnLoadUpdates(file).history
             /\ historyIndex' = ReaderOnLoadUpdates(file).historyIndex
             /\ error' = ReaderOnLoadUpdates(file).error
             /\ lastOp' = "load"
          \/ \* e.target.result is empty, line 149
             /\ error' = ErrCouldNotRead
             /\ lastOp' = "loadEmpty"
             /\ UNCHANGED <<originalFile, history, historyIndex>>
       /\ UNCHANGED <<isLoading, dialogOpen, inflight>>
       /\ UNCHANGED auxVars

\* reader.onerror, lines 152-154
ReaderOnError ==
    \E file \in reading :
       /\ reading' = reading \ {file}
       /\ error' = ErrFailedToRead
       /\ lastOp' = "loadError"
       /\ UNCHANGED <<originalFile, history, historyIndex, isLoading,
                      dialogOpen, inflight>>
       /\ UNCHANGED auxVars

\* ------------------------------------------------------------------ reset
\* handleReset as the onClick of the reset button, disabled={isLoading}
HandleReset ==
    /\ ~isLoading
    /\ originalFile' = handleResetUpdates.originalFile
    /\ history' = handleResetUpdates.history
    /\ historyIndex' = handleResetUpdates.historyIndex
    /\ error' = handleResetUpdates.error
    /\ lastOp' = "reset"
    /\ UNCHANGED <<isLoading, dialogOpen, reading, inflight>>
    /\ UNCHANGED auxVars

\* -------------------------------------------------------------- undo/redo
\* handleUndo with the guard historyIndex >= 0
handleUndo_atZero ==
    /\ ~isLoading
    /\ IF historyIndex >= 0
       THEN historyIndex' = historyIndex - 1
       ELSE UNCHANGED historyIndex
    /\ lastOp' = "undo"
    /\ UNCHANGED <<originalFile, history, isLoading, error, dialogOpen,
                   reading, inflight>>
    /\ UNCHANGED auxVars

\* handleUndo, lines 262-266
handleUndo ==
    /\ ~isLoading
    /\ IF historyIndex > 0
       THEN historyIndex' = historyIndex - 1
       ELSE UNCHANGED historyIndex
    /\ lastOp' = "undo"
    /\ UNCHANGED <<originalFile, history, isLoading, error, dialogOpen,
                   reading, inflight>>
    /\ UNCHANGED auxVars

\* handleRedo with the guard historyIndex < history.length
handleRedo_pastTail ==
    /\ ~isLoading
    /\ IF historyIndex < Len(history)
       THEN historyIndex' = historyIndex + 1
       ELSE UNCHANGED historyIndex
    /\ lastOp' = "redo"
    /\ UNCHANGED <<originalFile, history, isLoading, error, dialogOpen,
                   reading, inflight>>
    /\ UNCHANGED auxVars

\* handleRedo, lines 268-272
handleRedo ==
    /\ ~isLoading
    /\ IF historyIndex < Len(history) - 1
       THEN historyIndex' = historyIndex + 1
       ELSE UNCHANGED historyIndex
    /\ lastOp' = "redo"
    /\ UNCHANGED <<originalFile, history, isLoading, error, dialogOpen,
                   reading, inflight>>
    /\ UNCHANGED auxVars

\* ------------------------------------------------------------------- edit
\* the chroma key requested for every edit kind
isBgRemoval_always(actionName) == TRUE

\* line 204: the chroma key is requested by the actionName tag
isBgRemoval(actionName) == actionName = BgRemoval

\* handleGenerate without the early return of lines 189-192
handleGenerate_noEarlyReturn ==
    /\ ~isLoading
    /\ \E actionName \in ActionNames :
         LET currentImage == currentImageSrc IN
         /\ historyIndex + 2 <= MaxHistory
         /\ isLoading' = TRUE
         /\ error' = NoError
         /\ inflight' = Append(inflight,
                [history |-> history, historyIndex |-> historyIndex,
                 currentImage |-> currentImage,
                 actionName |-> actionName,
                 isBgRemoval |-> isBgRemoval(actionName),
                 awaiting |-> "generateContent",
                 aiResultImageSrc |-> <<>>])
         /\ lastOp' = "generate"
    /\ UNCHANGED <<originalFile, history, historyIndex, dialogOpen, reading>>
    /\ UNCHANGED auxVars

\* handleGenerate behind buttons that isLoading does not disable
handleGenerate_notDisabled ==
    /\ \E actionName \in ActionNames :
         LET currentImage == currentImageSrc IN
         IF currentImage = <<>>
         THEN /\ error' = ErrUploadFirst
              /\ lastOp' = "generateNoImage"
              /\ UNCHANGED <<isLoading, inflight>>
         ELSE /\ historyIndex + 2 <= MaxHistory
              /\ isLoading' = TRUE
              /\ error' = NoError
              /\ inflight' = Append(inflight,
                     [history |-> history, historyIndex |-> historyIndex,
                      currentImage |-> currentImage,
                      actionName |-> actionName,
                      isBgRemoval |-> isBgRemoval(actionName),
                      awaiting |-> "generateContent",
                      aiResultImageSrc |-> <<>>])
              /\ lastOp' = "generate"
    /\ UNCHANGED <<originalFile, history, historyIndex, dialogOpen, reading>>
    /\ UNCHANGED auxVars

\* handleGenerate, lines 187-207: from the click to the first await
handleGenerate ==
    /\ ~isLoading
    /\ \E actionName \in ActionNames :
         LET currentImage == currentImageSrc IN
         IF currentImage = <<>>
         THEN /\ error' = ErrUploadFirst
              /\ lastOp' = "generateNoImage"
              /\ UNCHANGED <<isLoading, inflight>>
         ELSE /\ historyIndex + 2 <= MaxHistory
              /\ isLoading' = TRUE
              /\ error' = NoError
              /\ inflight' = Append(inflight,
                     [history |-> history, historyIndex |-> historyIndex,
                      currentImage |-> currentImage,
                      actionName |-> actionName,
                      isBgRemoval |-> isBgRemoval(actionName),
                      awaiting |-> "generateContent",
                      aiResultImageSrc |-> <<>>])
              /\ lastOp' = "generate"
    /\ UNCHANGED <<originalFile, history, historyIndex, dialogOpen, reading>>
    /\ UNCHANGED auxVars

\* lines 233-236 with setHistoryIndex(newHistory.length)
appendSnapshot_offByOne(call, finalImageSrc) ==
    LET newHistory == Append(slice(call.history, call.historyIndex + 1),
                             finalImageSrc) IN
    /\ history' = newHistory
    /\ historyIndex' = Len(newHistory)
    /\ isLoading' = FALSE
    /\ UNCHANGED error

\* lines 233-236 without the slice: the snapshot is pushed after the old tail
appendSnapshot_noTruncate(call, finalImageSrc) ==
    LET newHistory == Append(call.history, finalImageSrc) IN
    /\ history' = newHistory
    /\ historyIndex' = call.historyIndex + 1
    /\ isLoading' = FALSE
    /\ UNCHANGED error

\* lines 233-236 taking the history and the cursor of the current render
\* instead of those of the closure
appendSnapshot_currentState(call, finalImageSrc) ==
    LET newHistory == Append(slice(history, historyIndex + 1),
                             finalImageSrc) IN
    /\ history' = newHistory
    /\ historyIndex' = Len(newHistory) - 1
    /\ isLoading' = FALSE
    /\ UNCHANGED error

\* lines 233-236 and the finally block, line 248
appendSnapshot(call, finalImageSrc) ==
    LET newHistory == Append(slice(call.history, call.historyIndex + 1),
                             finalImageSrc) IN
    /\ history' = newHistory
    /\ historyIndex' = Len(newHistory) - 1
    /\ isLoading' = FALSE
    /\ UNCHANGED error

\* the catch block without the finally block of lines 247-249
catchError_noFinally(errorMessage) ==
    /\ error' = errorMessage
    /\ UNCHANGED <<history, historyIndex, isLoading>>

\* the catch and finally blocks, lines 243-249
catchError(errorMessage) ==
    /\ error' = errorMessage
    /\ isLoading' = FALSE
    /\ UNCHANGED <<history, historyIndex>>

\* generateContent resolves with an image part, lines 220-236
GenerateContentImage ==
    \E k \in 1..Len(inflight), v \in 1..MaxVariants :
       LET call == inflight[k]
           src == aiResultImageSrc(v, call.currentImage) IN
       /\ call.awaiting = "generateContent"
       /\ IF call.isBgRemoval
          THEN /\ inflight' = [inflight EXCEPT ![k].awaiting = "makeMagentaTransparent",
                                               ![k].aiResultImageSrc = src]
               /\ lastOp' = "awaitChromaKey"
               /\ UNCHANGED <<history, historyIndex, isLoading, error>>
          ELSE /\ inflight' = RemoveAt(inflight, k)
               /\ appendSnapshot(call, src)
               /\ lastOp' = "append"
       /\ UNCHANGED <<originalFile, dialogOpen, reading>>
       /\ UNCHANGED auxVars

\* generateContent resolves without an image part, lines 238-241
GenerateContentNoImage ==
    \E k \in 1..Len(inflight) :
       /\ inflight[k].awaiting = "generateContent"
       /\ inflight' = RemoveAt(inflight, k)
       /\ catchError(ErrNoImagePart)
       /\ lastOp' = "editFailed"
       /\ UNCHANGED <<originalFile, dialogOpen, reading>>
       /\ UNCHANGED auxVars

\* generateContent rejects, lines 207 and 243
GenerateContentThrows ==
    \E k \in 1..Len(inflight) :
       /\ inflight[k].awaiting = "generateContent"
       /\ inflight' = RemoveAt(inflight, k)
       /\ catchError(ErrModelCall)
       /\ lastOp' = "editFailed"
       /\ UNCHANGED <<originalFile, dialogOpen, reading>>
       /\ UNCHANGED auxVars

\* makeMagentaTransparent resolves, lines 130 and 230-236
ChromaKeyResolves ==
    \E k \in 1..Len(inflight) :
       LET call == inflight[k] IN
       /\ call.awaiting = "makeMagentaTransparent"
       /\ inflight' = RemoveAt(inflight, k)
       /\ appendSnapshot(call, makeMagentaTransparent(call.aiResultImageSrc))
       /\ lastOp' = "append"
       /\ UNCHANGED <<originalFile, dialogOpen, reading>>
       /\ UNCHANGED auxVars

\* makeMagentaTransparent rejects, lines 94 and 132
ChromaKeyRejects ==
    \E k \in 1..Len(inflight) :
       /\ inflight[k].awaiting = "makeMagentaTransparent"
       /\ inflight' = RemoveAt(inflight, k)
       /\ catchError(ErrChromaKey)
       /\ lastOp' = "editFailed"
       /\ UNCHANGED <<originalFile, dialogOpen, reading>>
       /\ UNCHANGED auxVars

\* ------------------------------------------------------------------ Next
Next ==
    \/ OpenFileDialog
    \/ CancelFileDialog
    \/ handleFileChange
    \/ handleDrop
    \/ ReaderOnLoad
    \/ ReaderOnError
    \/ HandleReset
    \/ handleUndo
    \/ handleRedo
    \/ handleGenerate
    \/ GenerateContentImage
    \/ GenerateContentNoImage
    \/ GenerateContentThrows
    \/ ChromaKeyResolves
    \/ ChromaKeyRejects

Spec == Init /\ [][Next]_vars

\* ------------------------------------------------------------- type check
TypeOK ==
    /\ originalFile \in ImageFiles \cup {NoFile}
    /\ historyIndex \in -1..MaxHistory
    /\ isLoading \in BOOLEAN
    /\ dialogOpen \in BOOLEAN
    /\ reading \subseteq ImageFiles
    /\ Len(history) <= MaxHistory

\* =================================================================== claims
\* the steps that end a handleGenerate call
FailureOps == {"editFailed"}
\* the steps of processFile and its reader that do not load a snapshot
RejectedFile == lastOp' \in {"drop", "fileChange"} /\ reading' = reading
UnreadableFile == lastOp' \in {"loadEmpty", "loadError"}

\* C1: in every reachable state -1 <= historyIndex < length(history), and
\* historyIndex = -1 exactly when history is empty.
C1_CursorInRange ==
    /\ -1 <= historyIndex
    /\ historyIndex < Len(history)
    /\ (historyIndex = -1) <=> (history = <<>>)

\* two edits were appended to an upload, the cursor is on the new tail
C1_Witness ==
    /\ lastOp = "append"
    /\ Len(history) = 3
    /\ historyIndex = 2

\* C2: an Append step taken when the sequence is s and the cursor is i >= 0
\* leaves the first i+1 elements of s followed by the new snapshot, with the
\* cursor on that last element and no redo possible.
C2_AppendFromCurrentState ==
    [][lastOp' = "append" =>
          /\ historyIndex >= 0
          /\ Len(history') = historyIndex + 2
          /\ SubSeq(history', 1, historyIndex + 1)
                = SubSeq(history, 1, historyIndex + 1)
          /\ historyIndex' = Len(history') - 1
          /\ ~isRedoable']_vars

\* C3: when an edit attempt fails, history and historyIndex are what they
\* were when the call was started.
C3_FailureRestoresStart ==
    [][lastOp' \in FailureOps =>
          \E k \in 1..Len(inflight) :
             /\ inflight' = RemoveAt(inflight, k)
             /\ history' = inflight[k].history
             /\ historyIndex' = inflight[k].historyIndex]_vars

\* C4: while an edit call is pending, no step other than the completion of
\* that call changes history or historyIndex.
C4_NoMutationWhilePending ==
    [][(inflight # <<>> /\ Len(inflight') >= Len(inflight)) =>
          UNCHANGED <<history, historyIndex>>]_vars

\* C5 as stated: only an Append step changes the length of history, and an
\* Append step ends with the cursor on the last element.
C5_OnlyAppendChangesLength ==
    [][/\ Len(history') # Len(history) => lastOp' = "append"
       /\ lastOp' = "append" => historyIndex' = Len(history') - 1]_vars

\* C5 amended: Append, Reset and Load are the only steps that change the
\* length of history (Reset leaves 0, Load leaves 1), no Undo or Redo step
\* changes it, and an Append step ends with the cursor on the newly appended
\* snapshot, which is the last element.
C5_LengthChanges ==
    [][/\ Len(history') # Len(history) => lastOp' \in {"append", "reset", "load"}
       /\ lastOp' \in {"undo", "redo"} => Len(history') = Len(history)
       /\ lastOp' = "reset" => Len(history') = 0
       /\ lastOp' = "load" => Len(history') = 1
       /\ lastOp' = "append" =>
             /\ historyIndex' = Len(history') - 1
             /\ \E k \in 1..Len(inflight) :
                   /\ inflight' = RemoveAt(inflight, k)
                   /\ history'[historyIndex' + 1][3] = inflight[k].currentImage
                   /\ history'[historyIndex' + 1][1]
                         = (IF inflight[k].isBgRemoval THEN "png" ELSE "model")
                   /\ history'[Len(history')] = history'[historyIndex' + 1]]_vars

\* an Append from cursor 0 has produced a two-element history
C5_Witness ==
    /\ lastOp = "append"
    /\ Len(history) = 2
    /\ historyIndex = 1
    /\ history[2][3] = history[1]
    /\ ~isLoading

\* C6: handleGenerate called with no image loaded sets the error message,
\* starts no call and leaves history and historyIndex unchanged.
C6_EditWithoutImage ==
    [][(lastOp' \in {"generate", "generateNoImage"} /\ historyIndex = -1) =>
          /\ error' = ErrUploadFirst
          /\ inflight' = inflight
          /\ isLoading' = isLoading
          /\ UNCHANGED <<history, historyIndex>>]_vars

C6_Witness ==
    /\ lastOp = "generateNoImage"
    /\ error = ErrUploadFirst
    /\ historyIndex = -1
    /\ history = <<>>
    /\ inflight = <<>>
    /\ ~isLoading

\* C7: an Undo step decrements historyIndex by one when it is > 0 and
\* otherwise leaves it; history is unchanged; isUndoable is historyIndex > 0.
C7_Undo ==
    [][lastOp' = "undo" =>
          /\ historyIndex' = (IF historyIndex > 0 THEN historyIndex - 1
                              ELSE historyIndex)
          /\ history' = history
          /\ isUndoable <=> historyIndex > 0
          /\ isUndoable' <=> historyIndex' > 0]_vars

\* Undo has moved the cursor from the tail of a three-element history
C7_Witness ==
    /\ lastOp = "undo"
    /\ Len(history) = 3
    /\ historyIndex = 1

\* C8: a Redo step increments historyIndex by one when it is < length - 1
\* and otherwise leaves it; history is unchanged; isRedoable is
\* historyIndex < length - 1.
C8_Redo ==
    [][lastOp' = "redo" =>
          /\ historyIndex' = (IF historyIndex < Len(history) - 1
                              THEN historyIndex + 1 ELSE historyIndex)
          /\ history' = history
          /\ isRedoable <=> historyIndex < Len(history) - 1
          /\ isRedoable' <=> historyIndex' < Len(history') - 1]_vars

\* Redo has moved the cursor from 0 to 1 in a three-element history
C8_Witness ==
    /\ lastOp = "redo"
    /\ Len(history) = 3
    /\ historyIndex = 1
    /\ isRedoable

\* C9: a Load step leaves exactly the snapshot of the file read, with the
\* cursor at 0; a file that is not an image or cannot be read leaves history
\* and historyIndex unchanged and only sets an error.
C9_Load ==
    [][/\ lastOp' = "load" =>
             \E file \in reading :
                /\ reading' = reading \ {file}
                /\ history' = <<uploadSnapshot(file)>>
                /\ historyIndex' = 0
       /\ (RejectedFile \/ UnreadableFile) =>
             /\ UNCHANGED <<history, historyIndex, originalFile, isLoading,
                            inflight>>
             /\ error' \in {ErrInvalidFile, ErrCouldNotRead, ErrFailedToRead}]_vars

\* a file was loaded over a history an edit had been started from
C9_Witness ==
    /\ lastOp = "load"
    /\ inflight # <<>>
    /\ history = <<uploadSnapshot(2)>>
    /\ historyIndex = 0
    /\ inflight[1].history # history

\* C10: a Reset step leaves history empty and historyIndex at -1, and sets
\* no error.
C10_Reset ==
    [][lastOp' = "reset" =>
          /\ history' = <<>>
          /\ historyIndex' = -1
          /\ error' = NoError]_vars

\* Reset has cleared the session while a file read was still in flight
C10_Witness ==
    /\ lastOp = "reset"
    /\ history = <<>>
    /\ historyIndex = -1
    /\ originalFile = NoFile
    /\ reading # {}

\* C11: whenever history is non-empty, its element at index 0 is the snapshot
\* of the most recently loaded upload, the file recorded as originalFile.
C11_IndexZeroIsOriginalUpload ==
    history # <<>> =>
       /\ originalFile # NoFile
       /\ history[1] = uploadSnapshot(originalFile)

\* ============================================================== rendering
\* The same tasks with their setState calls kept apart.  A task that calls
\* several setters puts the calls in `queue` in source order; Render commits
\* queued calls to the state the component is rendered with.  No other task
\* runs while calls are queued: the task and its renders are synchronous.

\* the state a render shows, as a record
rendered ==
    [originalFile |-> originalFile, history |-> history,
     historyIndex |-> historyIndex, isLoading |-> isLoading, error |-> error]

\* the effect of the setState calls q, in order, on the record st
RECURSIVE applyUpdates(_, _)
applyUpdates(st, q) ==
    IF q = <<>> THEN st
    ELSE applyUpdates([st EXCEPT ![q[1][1]] = q[1][2]], Tail(q))

\* handleReset, lines 253-256
handleResetCalls ==
    << <<"originalFile", NoFile>>, <<"history", <<>>>>,
       <<"historyIndex", -1>>, <<"error", NoError>> >>

\* reader.onload, lines 143-147
readerOnLoadCalls(file) ==
    handleResetCalls \o
    << <<"originalFile", file>>, <<"history", <<uploadSnapshot(file)>>>>,
       <<"historyIndex", 0>>, <<"error", NoError>> >>

\* handleGenerate, lines 233-236 and 248
appendCalls(call, finalImageSrc) ==
    LET newHistory == Append(slice(call.history, call.historyIndex + 1),
                             finalImageSrc) IN
    << <<"history", newHistory>>, <<"historyIndex", Len(newHistory) - 1>>,
       <<"isLoading", FALSE>> >>

\* a render after every single setState call
renderBatch_eachCall(q) == 1

\* how many queued calls one render commits: React batches all the calls of
\* a task into one render
renderBatch(q) == Len(q)

Render ==
    /\ queue # <<>>
    /\ LET n == renderBatch(queue)
           st == applyUpdates(rendered, SubSeq(queue, 1, n)) IN
       /\ originalFile' = st.originalFile
       /\ history' = st.history
       /\ historyIndex' = st.historyIndex
       /\ isLoading' = st.isLoading
       /\ error' = st.error
       /\ queue' = SubSeq(queue, n + 1, Len(queue))
    /\ lastOp' = "render"
    /\ UNCHANGED <<dialogOpen, reading, inflight, img, data, loopI, hsl>>

\* reader.onload with a non-empty result, lines 140-147
QueueReaderOnLoad ==
    /\ queue = <<>>
    /\ \E file \in reading :
          /\ reading' = reading \ {file}
          /\ queue' = readerOnLoadCalls(file)
    /\ lastOp' = "load"
    /\ UNCHANGED <<originalFile, history, historyIndex, isLoading, error,
                   dialogOpen, inflight, img, data, loopI, hsl>>

\* onClick of the reset button, lines 252-256
QueueReset ==
    /\ queue = <<>>
    /\ ~isLoading
    /\ queue' = handleResetCalls
    /\ lastOp' = "reset"
    /\ UNCHANGED <<originalFile, history, historyIndex, isLoading, error,
                   dialogOpen, reading, inflight, img, data, loopI, hsl>>

\* generateContent resolves with an image part, lines 220-236
QueueGenerateContentImage ==
    /\ queue = <<>>
    /\ \E k \in 1..Len(inflight), v \in 1..MaxVariants :
          LET call == inflight[k]
              src == aiResultImageSrc(v, call.currentImage) IN
          /\ call.awaiting = "generateContent"
          /\ IF call.isBgRemoval
             THEN /\ inflight' = [inflight EXCEPT
                                     ![k].awaiting = "makeMagentaTransparent",
                                     ![k].aiResultImageSrc = src]
                  /\ lastOp' = "awaitChromaKey"
                  /\ UNCHANGED queue
             ELSE /\ inflight' = RemoveAt(inflight, k)
                  /\ queue' = appendCalls(call, src)
                  /\ lastOp' = "append"
    /\ UNCHANGED <<originalFile, history, historyIndex, isLoading, error,
                   dialogOpen, reading, img, data, loopI, hsl>>

\* makeMagentaTransparent resolves, lines 230-236
QueueChromaKeyResolves ==
    /\ queue = <<>>
    /\ \E k \in 1..Len(inflight) :
          LET call == inflight[k] IN
          /\ call.awaiting = "makeMagentaTransparent"
          /\ inflight' = RemoveAt(inflight, k)
          /\ queue' = appendCalls(call,
                         makeMagentaTransparent(call.aiResultImageSrc))
    /\ lastOp' = "append"
    /\ UNCHANGED <<originalFile, history, historyIndex, isLoading, error,
                   dialogOpen, reading, img, data, loopI, hsl>>

NextRender ==
    \/ Render
    \/ QueueReaderOnLoad
    \/ QueueReset
    \/ QueueGenerateContentImage
    \/ QueueChromaKeyResolves
    \/ queue = <<>> /\ OpenFileDialog
    \/ queue = <<>> /\ CancelFileDialog
    \/ queue = <<>> /\ handleFileChange
    \/ queue = <<>> /\ handleDrop
    \/ queue = <<>> /\ ReaderOnError
    \/ queue = <<>> /\ handleUndo
    \/ queue = <<>> /\ handleRedo
    \/ queue = <<>> /\ handleGenerate
    \/ queue = <<>> /\ GenerateContentNoImage
    \/ queue = <<>> /\ GenerateContentThrows
    \/ queue = <<>> /\ ChromaKeyRejects

SpecRender == Init /\ [][NextRender]_vars

MaxLevels == 16
\* longest buffer, in pixels, built from the palette below
MaxPixels == 2

Levels == {(k * 255) \div (MaxLevels - 1) : k \in 0..(MaxLevels - 1)}
\* magenta, dark magenta, near-white pink, red, greyish magenta, a violet of
\* hue 275, white
Palette == {<<255, 0, 255>>, <<40, 0, 40>>, <<255, 250, 255>>, <<255, 0, 0>>,
            <<140, 120, 140>>, <<44, 30, 54>>, <<255, 255, 255>>}
Alphas == {0, 128, 255}
PalettePixels == {<<p[1], p[2], p[3], a>> : p \in Palette, a \in Alphas}

RECURSIVE PaletteBuffers(_)
PaletteBuffers(n) ==
    IF n = 0 THEN {<<>>}
    ELSE {px \o rest : px \in PalettePixels, rest \in PaletteBuffers(n - 1)}

PixelBuffers ==
    {<<r, g, b, 255>> : r \in Levels, g \in Levels, b \in Levels}
       \cup UNION {PaletteBuffers(n) : n \in 1..MaxPixels}

\* comparisons of fractions with positive denominators
FracEq(x, y) == x[1] * y[2] = y[1] * x[2]
FracLe(x, y) == x[1] * y[2] <= y[1] * x[2]
FracLt(x, y) == x[1] * y[2] < y[1] * x[2]

Max3(x, y, z) == IF x >= y /\ x >= z THEN x ELSE IF y >= z THEN y ELSE z
Min3(x, y, z) == IF x <= y /\ x <= z THEN x ELSE IF y <= z THEN y ELSE z
Abs(x) == IF x < 0 THEN -x ELSE x

\* rgbToHsl without the "+ (g < b ? 6 : 0)" of line 64
rgbToHsl_noWrap(r, g, b) ==
    LET max == Max3(r, g, b)
        min == Min3(r, g, b)
        l == <<max + min, 510>>
        d == max - min
    IN  IF max = min THEN << <<0, 1>>, <<0, 1>>, l >>
        ELSE LET s == IF max + min > 255 THEN <<d, 510 - max - min>>
                      ELSE <<d, max + min>>
                 h == IF max = r THEN g - b
                      ELSE IF max = g THEN (b - r) + 2 * d
                      ELSE (r - g) + 4 * d
             IN  << <<60 * h, d>>, s, l >>

\* rgbToHsl, lines 51-72.  r, g, b are the bytes; the division by 255 of
\* lines 52-54 is carried by the denominators (l = (max + min) / 2 is
\* (max + min) / 510 on the bytes, l > 0.5 is max + min > 255).  The switch
\* of line 63 takes the first case that equals max: r, then g, then b.
\* The result is [h * 360, s, l] with h = (sector term) / 6.
rgbToHsl(r, g, b) ==
    LET max == Max3(r, g, b)
        min == Min3(r, g, b)
        l == <<max + min, 510>>
        d == max - min
    IN  IF max = min THEN << <<0, 1>>, <<0, 1>>, l >>
        ELSE LET s == IF max + min > 255 THEN <<d, 510 - max - min>>
                      ELSE <<d, max + min>>
                 h == IF max = r THEN (g - b) + (IF g < b THEN 6 * d ELSE 0)
                      ELSE IF max = g THEN (b - r) + 2 * d
                      ELSE (r - g) + 4 * d
             IN  << <<60 * h, d>>, s, l >>

\* lines 102-106
magentaHue == 300
hueTolerance == 25
minSaturation == <<25, 100>>
minLightness == <<15, 100>>
maxLightness == <<95, 100>>

\* lines 116-117: Math.min(hueDiff, 360 - hueDiff)
hueDistance(h, refHue) ==
    LET hueDiff == Abs(h[1] - refHue * h[2])
        other == 360 * h[2] - hueDiff
    IN  <<IF hueDiff <= other THEN hueDiff ELSE other, h[2]>>

\* the test of lines 119-124 with hueDistance < hueTolerance
isBackground_exclusiveTolerance(h, s, l) ==
    /\ FracLt(hueDistance(h, magentaHue), <<hueTolerance, 1>>)
    /\ FracLe(minSaturation, s)
    /\ FracLe(minLightness, l)
    /\ FracLe(l, maxLightness)

\* the test of lines 119-124
isBackground(h, s, l) ==
    /\ FracLe(hueDistance(h, magentaHue), <<hueTolerance, 1>>)
    /\ FracLe(minSaturation, s)
    /\ FracLe(minLightness, l)
    /\ FracLe(l, maxLightness)

\* the state after ctx.getImageData, lines 98-101
InitPixel ==
    /\ originalFile = NoFile
    /\ history = <<>>
    /\ historyIndex = -1
    /\ isLoading = FALSE
    /\ error = NoError
    /\ dialogOpen = FALSE
    /\ reading = {}
    /\ inflight = <<>>
    /\ queue = <<>>
    /\ lastOp = "getImageData"
    /\ img \in PixelBuffers
    /\ data = img
    /\ loopI = 0
    /\ hsl = <<>>

\* one iteration that clears the whole pixel instead of its alpha
LoopStep_clearsPixel ==
    /\ loopI < Len(data)
    /\ LET r == data[loopI + 1]
           g == data[loopI + 2]
           b == data[loopI + 3]
           c == rgbToHsl(r, g, b)
       IN  /\ hsl' = c
           /\ data' = IF isBackground(c[1], c[2], c[3])
                      THEN [k \in 1..Len(data) |->
                              IF k \in (loopI + 1)..(loopI + 4) THEN 0
                              ELSE data[k]]
                      ELSE data
    /\ loopI' = loopI + 4
    /\ lastOp' = "pixel"
    /\ UNCHANGED <<originalFile, history, historyIndex, isLoading, error,
                   dialogOpen, reading, inflight, queue, img>>

\* one iteration of the loop of lines 108-127
LoopStep ==
    /\ loopI < Len(data)
    /\ LET r == data[loopI + 1]
           g == data[loopI + 2]
           b == data[loopI + 3]
           c == rgbToHsl(r, g, b)
       IN  /\ hsl' = c
           /\ data' = IF isBackground(c[1], c[2], c[3])
                      THEN [data EXCEPT ![loopI + 4] = 0]
                      ELSE data
    /\ loopI' = loopI + 4
    /\ lastOp' = "pixel"
    /\ UNCHANGED <<originalFile, history, historyIndex, isLoading, error,
                   dialogOpen, reading, inflight, queue, img>>

\* the loop has ended: ctx.putImageData, line 129
PutImageData ==
    /\ loopI >= Len(data)
    /\ lastOp # "putImageData"
    /\ lastOp' = "putImageData"
    /\ UNCHANGED <<originalFile, history, historyIndex, isLoading, error,
                   dialogOpen, reading, inflight, queue, img, data, loopI, hsl>>

NextPixel ==
    \/ LoopStep
    \/ PutImageData

SpecPixel == InitPixel /\ [][NextPixel]_vars

\* the pixel the last iteration visited, read from the input buffer
visitedR == img[loopI - 3]
visitedG == img[loopI - 2]
visitedB == img[loopI - 1]
visitedA == img[loopI]

\* the hue, in degrees and in [0, 360), of the 60-degree sector formula
\* taken for channel c as the maximum
SectorHue(c, r, g, b) ==
    LET d == Max3(r, g, b) - Min3(r, g, b)
        n == IF c = "r" THEN 60 * (g - b)
             ELSE IF c = "g" THEN 60 * (b - r) + 120 * d
             ELSE 60 * (r - g) + 240 * d
    IN  <<n % (360 * d), d>>

\* C16: rgbToHsl returns the standard RGB-to-HSL result: lightness is
\* (max + min) / 2; hue and saturation are 0 when max = min; otherwise
\* saturation is d / (1 - |2l - 1|) and hue is the sector formula of the
\* maximum channel, the same for every channel that ties for the maximum;
\* hue is in [0, 360), saturation and lightness in [0, 1]; pure red, green
\* and blue give (0, 1, 0.5), (120, 1, 0.5) and (240, 1, 0.5).
C16_StandardHsl ==
    lastOp = "pixel" =>
       LET r == visitedR
           g == visitedG
           b == visitedB
           max == Max3(r, g, b)
           min == Min3(r, g, b)
           h == hsl[1]
           s == hsl[2]
           l == hsl[3]
       IN  /\ h[2] > 0 /\ s[2] > 0 /\ l[2] > 0
           /\ FracEq(l, <<max + min, 2 * 255>>)
           /\ max = min => FracEq(h, <<0, 1>>) /\ FracEq(s, <<0, 1>>)
           /\ max # min =>
                 /\ FracEq(s, <<max - min, 255 - Abs(max + min - 255)>>)
                 /\ r = max => FracEq(h, SectorHue("r", r, g, b))
                 /\ g = max => FracEq(h, SectorHue("g", r, g, b))
                 /\ b = max => FracEq(h, SectorHue("b", r, g, b))
           /\ FracLe(<<0, 1>>, h) /\ FracLt(h, <<360, 1>>)
           /\ FracLe(<<0, 1>>, s) /\ FracLe(s, <<1, 1>>)
           /\ FracLe(<<0, 1>>, l) /\ FracLe(l, <<1, 1>>)
           /\ <<r, g, b>> = <<255, 0, 0>> =>
                 FracEq(h, <<0, 1>>) /\ FracEq(s, <<1, 1>>) /\ FracEq(l, <<1, 2>>)
           /\ <<r, g, b>> = <<0, 255, 0>> =>
                 FracEq(h, <<120, 1>>) /\ FracEq(s, <<1, 1>>) /\ FracEq(l, <<1, 2>>)
           /\ <<r, g, b>> = <<0, 0, 255>> =>
                 FracEq(h, <<240, 1>>) /\ FracEq(s, <<1, 1>>) /\ FracEq(l, <<1, 2>>)

\* magenta, where red and blue tie for the maximum, was converted to hue 300
C16_Witness ==
    /\ lastOp = "pixel"
    /\ <<visitedR, visitedG, visitedB>> = <<255, 0, 255>>
    /\ FracEq(hsl[1], <<300, 1>>)
    /\ FracEq(hsl[2], <<1, 1>>)
    /\ FracEq(hsl[3], <<1, 2>>)

\* the circular distance of hue h to refHue is at most tol: h is within tol
\* of refHue itself or of refHue moved by a full turn
WithinCircular(h, refHue, tol) ==
    \E turn \in {-1, 0, 1} :
       Abs(h[1] - (refHue + 360 * turn) * h[2]) <= tol * h[2]

C13_OnlyBackgroundAlphaChanges ==
    /\ Len(data) = Len(img)
    /\ \A p \in 0..((Len(img) \div 4) - 1) :
          LET c == rgbToHsl(img[4 * p + 1], img[4 * p + 2], img[4 * p + 3])
              visited == 4 * p < loopI
          IN  /\ data[4 * p + 1] = img[4 * p + 1]
              /\ data[4 * p + 2] = img[4 * p + 2]
              /\ data[4 * p + 3] = img[4 * p + 3]
              /\ IF visited /\ isBackground(c[1], c[2], c[3])
                 THEN data[4 * p + 4] = 0
                 ELSE data[4 * p + 4] = img[4 * p + 4]

\* the pass is over for a magenta pixel followed by a red one: the first
\* lost its alpha, the second kept it
C13_Witness ==
    /\ lastOp = "putImageData"
    /\ img = <<255, 0, 255, 255, 255, 0, 0, 128>>
    /\ data = <<255, 0, 255, 0, 255, 0, 0, 128>>

\* C15: the chroma-key step runs on the model's result if and only if the
\* actionName tag of the edit is background removal; for any other tag the
\* snapshot appended is exactly the image the model returned.
C15_ChromaKeyIffBgRemoval ==
    [][/\ lastOp' = "awaitChromaKey" =>
             \E k \in 1..Len(inflight) :
                /\ inflight'[k].awaiting = "makeMagentaTransparent"
                /\ inflight[k].awaiting = "generateContent"
                /\ inflight[k].actionName = BgRemoval
       /\ lastOp' = "append" =>
             \E k \in 1..Len(inflight) :
                LET call == inflight[k]
                    appended == history'[Len(history')] IN
                /\ inflight' = RemoveAt(inflight, k)
                /\ (call.actionName = BgRemoval)
                      <=> (call.awaiting = "makeMagentaTransparent")
                /\ call.actionName = BgRemoval =>
                      /\ appended = makeMagentaTransparent(call.aiResultImageSrc)
                      /\ appended # call.aiResultImageSrc
                /\ call.actionName # BgRemoval =>
                      \E v \in 1..MaxVariants :
                         appended = aiResultImageSrc(v, call.currentImage)]_vars

\* a background removal was appended through the chroma key, then a blemish
\* removal was appended as the model returned it
C15_Witness ==
    /\ lastOp = "append"
    /\ Len(history) = 3
    /\ historyIndex = 2
    /\ history[2][1] = "png"
    /\ history[3][1] = "model"

\* C17: for every edit that succeeds, the snapshot at the new last index was
\* produced from the snapshot right before it in the resulting sequence: the
\* image sent to the model and the truncation point both come from the
\* (history, historyIndex) pair captured when the edit was started.
C17_AppendedAfterItsSource ==
    [][lastOp' = "append" =>
          \E k \in 1..Len(inflight) :
             LET call == inflight[k]
                 n == Len(history') IN
             /\ inflight' = RemoveAt(inflight, k)
             /\ n >= 2
             /\ history'[n][3] = history'[n - 1]
             /\ history'[n - 1] = call.currentImage
             /\ call.currentImage = call.history[call.historyIndex + 1]
             /\ SubSeq(history', 1, n - 1)
                   = SubSeq(call.history, 1, call.historyIndex + 1)]_vars

\* an edit was appended after another file had been loaded under it: the new
\* tail still follows the snapshot it was made from
C17_Witness ==
    /\ lastOp = "append"
    /\ Len(history) = 2
    /\ history[2][3] = history[1]
    /\ originalFile # history[1][2]

\* C18: at most one edit call is in flight at any time, and the loading flag
\* is set exactly while one is.
C18_AtMostOneCall ==
    /\ Len(inflight) <= 1
    /\ isLoading <=> (inflight # <<>>)

\* an edit is pending on a history that would admit another edit
C18_Witness ==
    /\ Len(inflight) = 1
    /\ isLoading
    /\ currentImageSrc # <<>>
    /\ historyIndex = 0
    /\ inflight[1].awaiting = "makeMagentaTransparent"

\* the external call and the image decode eventually resolve or reject
SpecLive ==
    /\ Spec
    /\ WF_vars(GenerateContentImage \/ GenerateContentNoImage
                  \/ GenerateContentThrows)
    /\ WF_vars(ChromaKeyResolves \/ ChromaKeyRejects)

====
